---------------------------- MODULE Spec2Model ----------------------------
(***************************************************************************)
(* A model of scsequtil/fastq.py: the fastq Record with its two variants   *)
(* (StrRecord, BytesRecord) and the tag codec kept in the name field, the  *)
(* Reader grouping raw lines four at a time, estimate_sequence_length and  *)
(* the TagGenerator.                                                       *)
(*                                                                         *)
(* Text and bytes objects are sequences of one-character strings.  A       *)
(* Python value is a record [kind, txt, num]: kind is the Python type      *)
(* ("str", "bytes", "int", "float", "NoneType", "list"), txt the content   *)
(* of a str or bytes, num the number of an int, and for a float the number *)
(* of halves (3 is 1.5): the floats of the model are the multiples of 0.5. *)
(***************************************************************************)
EXTENDS Integers, Sequences, FiniteSets

VARIABLES
    variant,    \* class of the record under test: "StrRecord" or "BytesRecord"
    data,       \* Record._data: the four fields name, sequence, name2, quality
    origName,   \* history: the name the record was constructed with
    calls,      \* history: the pair lists of the set_tag/set_tags calls that returned
    last,       \* history: the last call on the record, its arguments and outcome
    nops,       \* number of mutating calls made on the record
    cls,        \* class of the reader under test: "Reader" or "TagGenerator"
    mode,       \* Reader._mode
    tags,       \* TagGenerator.tags (empty for a plain Reader)
    source,     \* the line source: [n |-> number of lines, pat |-> their contents]
    consumed,   \* number of lines the record_grouper has drawn from the source
    yielded,    \* history: the records Reader.__iter__ has yielded
    emitted,    \* history: the tag lists TagGenerator.__iter__ has yielded
    rpc,        \* position of the iteration: "iter" or "done"
    est_i,      \* estimate_sequence_length: i
    est_data,   \* estimate_sequence_length: data[:i], and data at the end
    est_pc      \* estimate_sequence_length: "loop" or "done"

recVars == <<variant, data, origName, calls, last, nops>>
readVars == <<cls, mode, tags, source, consumed, yielded, emitted, rpc>>
estVars == <<est_i, est_data, est_pc>>
vars == <<variant, data, origName, calls, last, nops, cls, mode, tags,
          source, consumed, yielded, emitted, rpc, est_i, est_data, est_pc>>

(***************************************************************************)
(* Python values                                                           *)
(***************************************************************************)
PyStr(t) == [kind |-> "str", txt |-> t, num |-> 0]
PyBytes(t) == [kind |-> "bytes", txt |-> t, num |-> 0]
PyInt(n) == [kind |-> "int", txt |-> <<>>, num |-> n]
PyFloat(h) == [kind |-> "float", txt |-> <<>>, num |-> h]
PyNone == [kind |-> "NoneType", txt |-> <<>>, num |-> 0]
PyList == [kind |-> "list", txt |-> <<>>, num |-> 0]

\* An outcome of a call: err is "none" or the exception's class.
Ok(v) == [err |-> "none", val |-> v]
Raise(e) == [err |-> e, val |-> PyNone]

Max(a, b) == IF a >= b THEN a ELSE b
Min(a, b) == IF a <= b THEN a ELSE b

\* s[lo:hi] of Python, for any integers lo and hi.
PySlice(s, lo, hi) ==
    LET n == Len(s)
        norm(x) == IF x < 0 THEN Max(0, x + n) ELSE Min(x, n)
        a == norm(lo)
        b == norm(hi)
    IN [i \in 1..Max(0, b - a) |-> s[a + i]]

\* s[1:]
Tail1(s) == IF s = <<>> THEN <<>> ELSE Tail(s)

\* s.split(sep) for a one-character separator: never an empty list.
RECURSIVE Split(_, _)
Split(s, sep) ==
    IF \A i \in 1..Len(s) : s[i] # sep
    THEN <<s>>
    ELSE LET p == CHOOSE i \in 1..Len(s) :
                      s[i] = sep /\ \A j \in 1..(i - 1) : s[j] # sep
         IN <<SubSeq(s, 1, p - 1)>> \o Split(SubSeq(s, p + 1, Len(s)), sep)

\* sep.join(parts)
RECURSIVE Join(_, _)
Join(parts, sep) ==
    IF parts = <<>> THEN <<>>
    ELSE IF Len(parts) = 1 THEN parts[1]
    ELSE parts[1] \o <<sep>> \o Join(Tail(parts), sep)

Digits == <<"0", "1", "2", "3", "4", "5", "6", "7", "8", "9">>
IsDigit(c) == \E d \in 1..10 : Digits[d] = c
DigitVal(c) == (CHOOSE d \in 1..10 : Digits[d] = c) - 1

\* str(n) for a natural number n.
RECURSIVE NatStr(_)
NatStr(n) == IF n < 10 THEN <<Digits[n + 1]>>
             ELSE NatStr(n \div 10) \o <<Digits[(n % 10) + 1]>>

\* str(n) for an int n.
IntStr(n) == IF n < 0 THEN <<"-">> \o NatStr(0 - n) ELSE NatStr(n)

\* str(x) for a float x of h halves: always with a fractional digit.
FloatStr(h) ==
    LET a == IF h < 0 THEN 0 - h ELSE h
    IN (IF h < 0 THEN <<"-">> ELSE <<>>)
         \o NatStr(a \div 2) \o <<".">> \o <<IF a % 2 = 1 THEN "5" ELSE "0">>

\* The number a non-empty run of digits denotes.
RECURSIVE DigitsVal(_)
DigitsVal(t) == IF t = <<>> THEN 0
                ELSE 10 * DigitsVal(SubSeq(t, 1, Len(t) - 1)) + DigitVal(t[Len(t)])

AllDigits(t) == \A i \in 1..Len(t) : IsDigit(t[i])

Signed(t) == t # <<>> /\ t[1] \in {"-", "+"}
Unsigned(t) == IF Signed(t) THEN Tail(t) ELSE t
SignOf(t) == IF t # <<>> /\ t[1] = "-" THEN 0 - 1 ELSE 1

\* int(t) on a str or bytes of content t: an optional sign and digits.
ParseInt(t) ==
    LET u == Unsigned(t)
    IN IF u # <<>> /\ AllDigits(u) THEN Ok(PyInt(SignOf(t) * DigitsVal(u)))
       ELSE Raise("ValueError")

\* The trailing zeros of a run of digits dropped.
RECURSIVE StripZeros(_)
StripZeros(t) == IF t # <<>> /\ t[Len(t)] = "0"
                 THEN StripZeros(SubSeq(t, 1, Len(t) - 1)) ELSE t

\* float(t) on a str or bytes of content t: an optional sign, digits, and an
\* optional point with digits.  A fraction other than .0 or .5 is a float
\* outside the model ("OutOfModel", which no behaviour of the model reaches).
ParseFloat(t) ==
    LET u == Unsigned(t)
        parts == Split(u, ".")
        ip == parts[1]
        fp == IF Len(parts) = 2 THEN parts[2] ELSE <<>>
        fr == StripZeros(fp)
    IN IF Len(parts) > 2 \/ ~AllDigits(ip) \/ ~AllDigits(fp) \/ (ip = <<>> /\ fp = <<>>)
       THEN Raise("ValueError")
       ELSE IF fr = <<>> THEN Ok(PyFloat(SignOf(t) * 2 * DigitsVal(ip)))
       ELSE IF fr = <<"5">> THEN Ok(PyFloat(SignOf(t) * (2 * DigitsVal(ip) + 1)))
       ELSE Raise("OutOfModel")

(***************************************************************************)
(* Record: the field setters                                               *)
(***************************************************************************)
Variants == {"StrRecord", "BytesRecord"}

\* The type of the fields a variant is documented to hold.
RecordKind(v) == IF v = "StrRecord" THEN "str" ELSE "bytes"

\* A mutant of the setters' test: only a str passes.
SetterAcceptsStrOnly(value) == value.kind = "str"

\* isinstance(value, (bytes, str)), the test of all four setters.
SetterAccepts(value) == value.kind \in {"bytes", "str"}

\* The setter of field f (1 name, 2 sequence, 3 name2, 4 quality) on _data d.
SetField(d, f, value) ==
    IF SetterAccepts(value)
    THEN [err |-> "none", data |-> [d EXCEPT ![f] = value]]
    ELSE [err |-> "TypeError", data |-> d]

(***************************************************************************)
(* Record: the tag codec                                                   *)
(***************************************************************************)
EmptyDict == <<>>
DictSet(m, k, v) == [x \in (DOMAIN m) \cup {k} |-> IF x = k THEN v ELSE m[x]]

\* _str_itype_map[t](v) and _bytes_itype_map[t](v): a KeyError for a type
\* that is no key of the map, else the conversion's outcome.
ITypeConvert(v, t, txt) ==
    IF t = <<"i">> THEN ParseInt(txt)
    ELSE IF t = <<"f">> THEN ParseFloat(txt)
    ELSE IF t = <<"Z">>
         THEN Ok(IF v = "StrRecord" THEN PyStr(txt) ELSE PyBytes(txt))
    ELSE Raise("KeyError")

\* One round of the dict comprehension of get_tags: k, t, v = seg.split(':')
\* (a ValueError unless there are three parts), then the conversion.
DecodeTag(v, seg) ==
    LET parts == Split(seg, ":")
    IN IF Len(parts) # 3 THEN [err |-> "ValueError", key |-> <<>>, val |-> PyNone]
       ELSE LET c == ITypeConvert(v, parts[2], parts[3])
            IN [err |-> c.err, key |-> parts[1], val |-> c.val]

\* The dict comprehension over the segments, in order: a later tag of the
\* same key replaces an earlier one, the first exception ends it.
RECURSIVE DecodeAll(_, _, _)
DecodeAll(v, segs, acc) ==
    IF segs = <<>> THEN [err |-> "none", map |-> acc]
    ELSE LET d == DecodeTag(v, segs[1])
         IN IF d.err # "none" THEN [err |-> d.err, map |-> EmptyDict]
            ELSE DecodeAll(v, Tail(segs), DictSet(acc, d.key, d.val))

\* get_tags on a record of variant v with the name field name.  Splitting a
\* bytes name by ';' or a str name by b';' is a TypeError.
GetTags(v, name) ==
    IF name.kind # RecordKind(v) THEN [err |-> "TypeError", map |-> EmptyDict]
    ELSE LET segs == Split(Tail1(name.txt), ";")
         IN DecodeAll(v, SubSeq(segs, 1, Len(segs) - 1), EmptyDict)

\* get_tag: the KeyError of a missing key is caught, and with it a KeyError
\* that get_tags itself raised.
GetTag(v, name, key) ==
    LET r == GetTags(v, name)
    IN IF r.err = "KeyError" THEN Ok(PyNone)
       ELSE IF r.err # "none" THEN Raise(r.err)
       ELSE IF key \in DOMAIN r.map THEN Ok(r.map[key])
       ELSE Ok(PyNone)

TagText(key, t, txt) == key \o <<":">> \o t \o <<":">> \o txt

\* StrRecord._mktag and BytesRecord._mktag: the tag's text.  A bytes value
\* on a StrRecord calls value.encode(), which bytes does not have.
MkTag(v, key, value) ==
    IF v = "StrRecord"
    THEN IF value.kind = "str" THEN Ok(PyStr(TagText(key, <<"Z">>, value.txt)))
         ELSE IF value.kind = "float"
              THEN Ok(PyStr(TagText(key, <<"f">>, FloatStr(value.num))))
         ELSE IF value.kind = "int"
              THEN Ok(PyStr(TagText(key, <<"i">>, IntStr(value.num))))
         ELSE IF value.kind = "bytes" THEN Raise("AttributeError")
         ELSE Raise("TypeError")
    ELSE IF value.kind \in {"str", "bytes"}
              THEN Ok(PyBytes(TagText(key, <<"Z">>, value.txt)))
         ELSE IF value.kind = "float"
              THEN Ok(PyBytes(TagText(key, <<"f">>, FloatStr(value.num))))
         ELSE IF value.kind = "int"
              THEN Ok(PyBytes(TagText(key, <<"i">>, IntStr(value.num))))
         ELSE Raise("TypeError")

\* The generator of set_tags: the tags of the pairs in order, or the first
\* exception.
RECURSIVE MkTags(_, _)
MkTags(v, pairs) ==
    IF pairs = <<>> THEN [err |-> "none", segs |-> <<>>]
    ELSE LET m == MkTag(v, pairs[1][1], pairs[1][2])
             rest == MkTags(v, Tail(pairs))
         IN IF m.err # "none" THEN [err |-> m.err, segs |-> <<>>]
            ELSE IF rest.err # "none" THEN rest
            ELSE [err |-> "none", segs |-> <<m.val.txt>> \o rest.segs]

\* '@%s;%s' % (tags, self.name[1:]) and b'@%s;%s' % (tags, self.name[1:]).
\* %s of a str format takes the repr of a bytes name; %s of a bytes format
\* refuses a str name.
FormatName(v, tagtxt, name) ==
    IF v = "StrRecord"
    THEN Ok(PyStr(<<"@">> \o tagtxt \o <<";">> \o
                  (IF name.kind = "bytes"
                   THEN <<"b", "'">> \o Tail1(name.txt) \o <<"'">>
                   ELSE Tail1(name.txt))))
    ELSE IF name.kind = "bytes"
         THEN Ok(PyBytes(<<"@">> \o tagtxt \o <<";">> \o Tail1(name.txt)))
         ELSE Raise("TypeError")

\* set_tags on _data d: the tags, the new name, the name's setter.
SetTags(v, d, pairs) ==
    LET m == MkTags(v, pairs)
        f == FormatName(v, Join(m.segs, ";"), d[1])
    IN IF m.err # "none" THEN [err |-> m.err, data |-> d]
       ELSE IF f.err # "none" THEN [err |-> f.err, data |-> d]
       ELSE SetField(d, 1, f.val)

\* set_tag on _data d.
SetTag(v, d, key, value) ==
    LET m == MkTag(v, key, value)
        f == FormatName(v, m.val.txt, d[1])
    IN IF m.err # "none" THEN [err |-> m.err, data |-> d]
       ELSE IF f.err # "none" THEN [err |-> f.err, data |-> d]
       ELSE SetField(d, 1, f.val)

(***************************************************************************)
(* The record under test: its inputs                                       *)
(***************************************************************************)
\* Mutating calls made on one record.
MaxOps == 2

KeyA == <<"a">>
KeyB == <<"b">>
Keys == {KeyA, KeyB}

\* Tag segments a name may carry when the record is constructed: well-formed
\* ones, and ones without two ':' or with a type that is none of i, Z, f.
GoodSegments == {<<"a", ":", "i", ":", "7">>,
                 <<"b", ":", "Z", ":", "b">>,
                 <<"a", ":", "f", ":", "2", ".", "5">>}
BadSegments == {<<"a">>,
                <<"a", ":", "i">>,
                <<"a", ":", "i", ":", "7", ":", "7">>,
                <<"a", ":", "x", ":", "7">>}
UntaggedName == <<"r">>
InitTagLists ==
    {<<>>} \cup {<<g>> : g \in GoodSegments \cup BadSegments}
      \cup {<<<<"a", ":", "x", ":", "7">>, <<"a">>>>,
            <<<<"a">>, <<"a", ":", "x", ":", "7">>>>,
            <<<<"b", ":", "Z", ":", "b">>, <<"a", ":", "x", ":", "7">>>>}
InitNames == {<<"@">> \o Join(tl \o <<UntaggedName>>, ";") : tl \in InitTagLists}

\* Values of set_tag: every supported kind, a text holding a separator, and
\* a value of no supported kind.
TagValues == {PyInt(12), PyInt(0 - 3), PyFloat(3), PyFloat(0 - 4), PyStr(<<"b">>),
              PyStr(<<"a", ";", "b">>), PyStr(<<"a", ":", "b">>),
              PyBytes(<<"b">>), PyNone}
SupportedKinds == {"int", "float", "str", "bytes"}

\* Pair lists of set_tags.
PairLists == {<<>>,
              <<<<KeyA, PyInt(12)>>>>,
              <<<<KeyA, PyInt(12)>>, <<KeyB, PyStr(<<"b">>)>>>>,
              <<<<KeyB, PyFloat(3)>>, <<KeyA, PyInt(0 - 3)>>>>,
              <<<<KeyA, PyInt(12)>>, <<KeyA, PyStr(<<"b">>)>>>>,
              <<<<KeyA, PyBytes(<<"b">>)>>, <<KeyB, PyInt(12)>>>>,
              <<<<KeyA, PyStr(<<"b">>)>>, <<KeyB, PyStr(<<"a", ";", "b">>)>>>>,
              <<<<KeyA, PyInt(12)>>, <<KeyB, PyList>>>>}

\* Values assigned to a field.
FieldValues == {PyStr(<<"@", "q">>), PyBytes(<<"@", "q">>), PyNone, PyInt(12)}

\* A line of the kind a variant holds.
Field(v, t) == IF v = "StrRecord" THEN PyStr(t) ELSE PyBytes(t)

NoCall == [op |-> "none", field |-> 0, key |-> <<>>, pairs |-> <<>>,
           value |-> PyNone, err |-> "none", ret |-> PyNone, map |-> EmptyDict,
           before |-> <<>>]

\* The variables of the reader and of the estimate, at rest.
ReaderIdle ==
    /\ cls = "Reader" /\ mode = "r" /\ tags = <<>> /\ source = [n |-> 0, pat |-> <<>>]
    /\ consumed = 0 /\ yielded = <<>> /\ emitted = <<>> /\ rpc = "iter"
EstimateIdle == est_i = 0 /\ est_data = <<>> /\ est_pc = "loop"

\* Record.__init__ on four lines of the variant's kind.
Init ==
    /\ variant \in Variants
    /\ \E n \in InitNames :
          /\ data = <<Field(variant, n), Field(variant, <<"A", "C">>),
                      Field(variant, <<"+">>), Field(variant, <<"I", "I">>)>>
          /\ origName = n
    /\ calls = [log |-> <<>>, renamed |-> FALSE]
    /\ last = NoCall
    /\ nops = 0
    /\ ReaderIdle
    /\ EstimateIdle

(***************************************************************************)
(* The record under test: its operations                                   *)
(***************************************************************************)
\* record.<field> = value
Assign(f, value) ==
    LET r == SetField(data, f, value)
    IN /\ nops < MaxOps
       /\ data' = r.data
       /\ last' = [NoCall EXCEPT !.op = "set", !.field = f, !.value = value,
                                 !.err = r.err, !.before = data]
       /\ calls' = IF f = 1 /\ r.err = "none"
                   THEN [calls EXCEPT !.renamed = TRUE] ELSE calls
       /\ nops' = nops + 1
       /\ UNCHANGED <<variant, origName, readVars, estVars>>

SetName == \E value \in FieldValues : Assign(1, value)
SetSequence == \E value \in FieldValues : Assign(2, value)
SetName2 == \E value \in FieldValues : Assign(3, value)
SetQuality == \E value \in FieldValues : Assign(4, value)

\* record.get_tags()
DoGetTags ==
    LET r == GetTags(variant, data[1])
    IN /\ last' = [NoCall EXCEPT !.op = "get_tags", !.err = r.err, !.map = r.map,
                                 !.before = data]
       /\ UNCHANGED <<variant, data, origName, calls, nops, readVars, estVars>>

\* record.get_tag(key)
DoGetTag ==
    \E key \in Keys :
       LET r == GetTag(variant, data[1], key)
       IN /\ last' = [NoCall EXCEPT !.op = "get_tag", !.key = key, !.err = r.err,
                                    !.ret = r.val, !.before = data]
          /\ UNCHANGED <<variant, data, origName, calls, nops, readVars, estVars>>

\* record.set_tag(key, value)
DoSetTag ==
    \E key \in Keys, value \in TagValues :
       LET r == SetTag(variant, data, key, value)
       IN /\ nops < MaxOps
          /\ data' = r.data
          /\ last' = [NoCall EXCEPT !.op = "set_tag", !.key = key, !.value = value,
                                    !.pairs = <<<<key, value>>>>, !.err = r.err,
                                    !.before = data]
          /\ calls' = IF r.err = "none"
                      THEN [calls EXCEPT !.log = Append(@, <<<<key, value>>>>)]
                      ELSE calls
          /\ nops' = nops + 1
          /\ UNCHANGED <<variant, origName, readVars, estVars>>

\* record.set_tags(pairs)
DoSetTags ==
    \E pairs \in PairLists :
       LET r == SetTags(variant, data, pairs)
       IN /\ nops < MaxOps
          /\ data' = r.data
          /\ last' = [NoCall EXCEPT !.op = "set_tags", !.pairs = pairs,
                                    !.err = r.err, !.before = data]
          /\ calls' = IF r.err = "none"
                      THEN [calls EXCEPT !.log = Append(@, pairs)]
                      ELSE calls
          /\ nops' = nops + 1
          /\ UNCHANGED <<variant, origName, readVars, estVars>>

Next ==
    \/ SetName
    \/ SetSequence
    \/ SetName2
    \/ SetQuality
    \/ DoGetTags
    \/ DoGetTag
    \/ DoSetTag
    \/ DoSetTags

Spec == Init /\ [][Next]_vars

\* The record under field assignments alone.
SetterNext ==
    \/ SetName
    \/ SetSequence
    \/ SetName2
    \/ SetQuality

SetterSpec == Init /\ [][SetterNext]_vars

(***************************************************************************)
(* Claims about the record                                                 *)
(***************************************************************************)
Segments(name) == Split(Tail1(name.txt), ";")
TagSegments(name) == SubSeq(Segments(name), 1, Len(Segments(name)) - 1)
TypeChars == {<<"i">>, <<"Z">>, <<"f">>}
WellFormedTag(seg) == Len(Split(seg, ":")) = 3 /\ Split(seg, ":")[2] \in TypeChars
Untagged(name) == Len(Segments(name)) = 1

\* A decoded value that equals the value written: an int or a float as it
\* is, a str or bytes by its content in the kind of the variant.
SameTagValue(v, got, want) ==
    IF want.kind \in {"int", "float"} THEN got = want
    ELSE got.kind = RecordKind(v) /\ got.txt = want.txt

\* C1: after set_tag(k, v) with v an int, a float, a str or a bytes, on a
\* record of either variant whose name decodes (tagged or not, under k or
\* not), get_tag(k) returns v in v's kind.
C1_RoundTrip ==
    (/\ last.op = "set_tag"
     /\ last.value.kind \in SupportedKinds
     /\ GetTags(variant, last.before[1]).err = "none")
    => /\ last.err = "none"
       /\ GetTag(variant, data[1], last.key).err = "none"
       /\ SameTagValue(variant, GetTag(variant, data[1], last.key).val, last.value)

\* C2: on a record whose name carries no tag, after
\* set_tags([(k1, v1), (k2, v2)]) get_tags() maps exactly k1 to v1 and k2 to
\* v2, and the name's last segment is the name before the call without its '@'.
C2_Multiplicity ==
    (/\ last.op = "set_tags"
     /\ Len(last.pairs) = 2
     /\ last.before[1].kind = RecordKind(variant)
     /\ Untagged(last.before[1])
     /\ \A i \in 1..Len(last.pairs) : last.pairs[i][2].kind \in SupportedKinds
     /\ last.pairs[1][1] # last.pairs[2][1])
    => /\ last.err = "none"
       /\ GetTags(variant, data[1]).err = "none"
       /\ DOMAIN GetTags(variant, data[1]).map = {last.pairs[1][1], last.pairs[2][1]}
       /\ \A i \in 1..2 : SameTagValue(variant,
                              GetTags(variant, data[1]).map[last.pairs[i][1]],
                              last.pairs[i][2])
       /\ Segments(data[1])[Len(Segments(data[1]))] = Tail1(last.before[1].txt)

\* The tags of the calls of a log, those of the newest call first.
RECURSIVE TagsOfCalls(_, _)
TagsOfCalls(v, log) ==
    IF log = <<>> THEN <<>>
    ELSE MkTags(v, log[Len(log)]).segs \o TagsOfCalls(v, SubSeq(log, 1, Len(log) - 1))

\* C3: a record constructed with an untagged name, after any set_tag and
\* set_tags calls that returned: the name starts with '@', its last segment
\* is the untagged name, every other segment is a key:type:value triple
\* with type i, Z or f, and the tags of a call stand before those of the
\* calls before it.
C3_NameGrammar ==
    (/\ Untagged(PyStr(origName))
     /\ ~calls.renamed)
    => /\ data[1].txt # <<>> /\ data[1].txt[1] = "@"
       /\ Segments(data[1])[Len(Segments(data[1]))] = Tail1(origName)
       /\ \A i \in 1..Len(TagSegments(data[1])) : WellFormedTag(TagSegments(data[1])[i])
       /\ TagSegments(data[1]) = TagsOfCalls(variant, calls.log)

MalformedTag(seg) == ~WellFormedTag(seg)
HasMalformedTag(name) ==
    \E i \in 1..Len(TagSegments(name)) : MalformedTag(TagSegments(name)[i])

\* C7: when a tag segment of the name has not exactly two ':' or has a type
\* other than i, Z, f, get_tags() raises and get_tag(key) raises for every key.
C7_MalformedRaises ==
    (/\ last.op \in {"get_tags", "get_tag"}
     /\ last.before[1].kind = RecordKind(variant)
     /\ HasMalformedTag(last.before[1]))
    => last.err # "none"

(***************************************************************************)
(* Reader and TagGenerator                                                 *)
(***************************************************************************)
\* Lines of the largest source of ReaderSpec.
MaxLines == 11
\* Tag descriptors of one TagGenerator.
MaxTags == 2

\* Open modes: the two the docstrings name, and another text mode.
Modes == {"r", "rb", "rt"}
BinaryMode(m) == m = "rb"

\* The line source: n lines, line i holding pat cyclically.  A binary mode
\* gives bytes lines, any other mode str lines.
LineText(src, i) == src.pat[((i - 1) % Len(src.pat)) + 1]
LineValue(m, t) == IF BinaryMode(m) THEN PyBytes(t) ELSE PyStr(t)

TwoRecords == << <<"@", "m">>, <<"A", "C", "G", "T">>, <<"+">>, <<"I", "J", "K", "L">>,
                 <<"@", "n">>, <<"G", "G">>, <<"+", "n">>, <<"M", "N">> >>
OneRecord == << <<"@", "m">>, <<"T", "T", "A">>, <<"+">>, <<"I", "I", "J">> >>
Patterns == {TwoRecords, OneRecord}
Sources == {[n |-> k, pat |-> p] : k \in 0..MaxLines, p \in Patterns}

\* Tag = namedtuple('Tag', ['start', 'end', 'sequence_tag', 'quality_tag'])
Tag(s, e, st, qt) == [start |-> s, end |-> e, sequence_tag |-> st, quality_tag |-> qt]
Offsets == {0, 2, 5}
TagSet == {Tag(s, e, "BC", "QB") : s \in Offsets, e \in Offsets}
TagLists == UNION {[1..k -> TagSet] : k \in 0..MaxTags}

\* A mutant of RecordType: the variant by the mode being binary.
RecordTypeByBinary(m) == IF BinaryMode(m) THEN "BytesRecord" ELSE "StrRecord"

\* record_type = StrRecord if self._mode == 'r' else BytesRecord
RecordType(m) == IF m = "r" THEN "StrRecord" ELSE "BytesRecord"

\* A mutant of GrouperNext: a short last group is passed on.
GrouperNextKeepsRest(m, src, c) ==
    IF c < src.n
    THEN [ok |-> TRUE,
          lines |-> [j \in 1..Min(4, src.n - c) |-> LineValue(m, LineText(src, c + j))],
          consumed |-> Min(c + 4, src.n)]
    ELSE [ok |-> FALSE, lines |-> <<>>, consumed |-> src.n]

\* A mutant of GrouperNext: args = [iter(iterable)] * 5.
GrouperNextFive(m, src, c) ==
    IF c + 5 <= src.n
    THEN [ok |-> TRUE,
          lines |-> [j \in 1..5 |-> LineValue(m, LineText(src, c + j))],
          consumed |-> c + 5]
    ELSE [ok |-> FALSE, lines |-> <<>>, consumed |-> src.n]

\* One next() on zip(*[iter(iterable)] * 4), c lines drawn so far: four
\* lines drawn from the one iterator, or, when it ends first, the lines
\* drawn are dropped and the zip ends.
GrouperNext(m, src, c) ==
    IF c + 4 <= src.n
    THEN [ok |-> TRUE,
          lines |-> [j \in 1..4 |-> LineValue(m, LineText(src, c + j))],
          consumed |-> c + 4]
    ELSE [ok |-> FALSE, lines |-> <<>>, consumed |-> src.n]

\* record_type(record): Record.__init__ keeps list(record).
MakeRecord(m, lines) == [variant |-> RecordType(m), data |-> lines]

ValueSlice(value, lo, hi) == [value EXCEPT !.txt = PySlice(value.txt, lo, hi)]

\* A mutant of ExtractTag: the quality tag first.
ExtractTagQualityFirst(record, tag) ==
    << <<tag.quality_tag, ValueSlice(record.data[4], tag.start, tag.end), "Z">>,
       <<tag.sequence_tag, ValueSlice(record.data[2], tag.start, tag.end), "Z">> >>

\* TagGenerator.extract_tag
ExtractTag(record, tag) ==
    << <<tag.sequence_tag, ValueSlice(record.data[2], tag.start, tag.end), "Z">>,
       <<tag.quality_tag, ValueSlice(record.data[4], tag.start, tag.end), "Z">> >>

\* The loop of TagGenerator.__iter__ over self.tags: tags.extend(...)
RECURSIVE ExtractAll(_, _)
ExtractAll(record, tgs) ==
    IF tgs = <<>> THEN <<>>
    ELSE ExtractTag(record, tgs[1]) \o ExtractAll(record, Tail(tgs))

\* The variables of the record under test, at rest.
RecordIdle ==
    /\ variant = "StrRecord" /\ data = <<>> /\ origName = <<>>
    /\ calls = [log |-> <<>>, renamed |-> FALSE] /\ last = NoCall /\ nops = 0

\* A Reader or a TagGenerator on a source, before its first record.
ReaderInit ==
    /\ cls \in {"Reader", "TagGenerator"}
    /\ mode \in Modes
    /\ source \in Sources
    /\ tags \in (IF cls = "TagGenerator" THEN TagLists ELSE {<<>>})
    /\ consumed = 0 /\ yielded = <<>> /\ emitted = <<>> /\ rpc = "iter"
    /\ RecordIdle
    /\ EstimateIdle

\* next() on iter(reader) of a Reader: one step of Reader.__iter__.
ReaderYield ==
    LET g == GrouperNext(mode, source, consumed)
    IN /\ cls = "Reader" /\ rpc = "iter"
       /\ consumed' = g.consumed
       /\ yielded' = IF g.ok THEN Append(yielded, MakeRecord(mode, g.lines)) ELSE yielded
       /\ rpc' = IF g.ok THEN "iter" ELSE "done"
       /\ UNCHANGED <<cls, mode, tags, source, emitted, recVars, estVars>>

\* next() on iter(generator) of a TagGenerator: one step of
\* TagGenerator.__iter__, which draws one record from Reader.__iter__.
TagGeneratorYield ==
    LET g == GrouperNext(mode, source, consumed)
    IN /\ cls = "TagGenerator" /\ rpc = "iter"
       /\ consumed' = g.consumed
       /\ yielded' = IF g.ok THEN Append(yielded, MakeRecord(mode, g.lines)) ELSE yielded
       /\ emitted' = IF g.ok
                     THEN Append(emitted, ExtractAll(MakeRecord(mode, g.lines), tags))
                     ELSE emitted
       /\ rpc' = IF g.ok THEN "iter" ELSE "done"
       /\ UNCHANGED <<cls, mode, tags, source, recVars, estVars>>

ReaderNext ==
    \/ ReaderYield
    \/ TagGeneratorYield

ReaderSpec == ReaderInit /\ [][ReaderNext]_vars

(***************************************************************************)
(* Claims about the Reader and the TagGenerator                            *)
(***************************************************************************)
\* Whether record i (from 1) holds the i-th group of four lines of the
\* source as name, sequence, name2, quality.
HoldsGroup(rec, i) ==
    /\ Len(rec.data) = 4
    /\ \A j \in 1..4 : rec.data[j].txt = LineText(source, 4 * (i - 1) + j)

\* C4: of a source of 4*N + r lines, r < 4, the Reader yields record after
\* record the groups of four lines in order, and when the iteration has
\* ended it has yielded exactly N records and the last r lines are gone.
C4_Grouping ==
    /\ Len(yielded) <= source.n \div 4
    /\ \A i \in 1..Len(yielded) : HoldsGroup(yielded[i], i)
    /\ rpc = "done" => (Len(yielded) = source.n \div 4 /\ consumed = source.n)

\* C4's case: two records yielded, three lines left over, the iteration ended.
C4_Witness ==
    /\ cls = "Reader" /\ rpc = "done"
    /\ source.n % 4 = 3 /\ Len(yielded) = 2 /\ yielded[1] # yielded[2]

ExpectedSlice(value, s, e) ==
    LET n == Len(value.txt)
    IN [value EXCEPT !.txt = [k \in 1..Max(0, Min(e, n) - Min(s, n)) |->
                                 value.txt[Min(s, n) + k]]]

\* C8: for every record the TagGenerator emits one list of 2n tuples for
\* its n descriptors, in the descriptors' order the sequence tag and then
\* the quality tag, each the slice start:end of its field with type 'Z',
\* the slice cut short or empty where the range passes the field's end.
C8_TagExtraction ==
    cls = "TagGenerator" =>
       /\ Len(emitted) = Len(yielded)
       /\ \A i \in 1..Len(emitted) :
             /\ Len(emitted[i]) = 2 * Len(tags)
             /\ \A j \in 1..Len(tags) :
                   /\ emitted[i][2 * j - 1] =
                         <<tags[j].sequence_tag,
                           ExpectedSlice(yielded[i].data[2], tags[j].start, tags[j].end),
                           "Z">>
                   /\ emitted[i][2 * j] =
                         <<tags[j].quality_tag,
                           ExpectedSlice(yielded[i].data[4], tags[j].start, tags[j].end),
                           "Z">>

\* C8's case: two descriptors, the second reaching past the end of the
\* record's fields, and a tag list emitted.
C8_Witness ==
    /\ cls = "TagGenerator" /\ Len(tags) = 2 /\ Len(emitted) = 2
    /\ tags[1].start < tags[1].end /\ tags[1].end <= Len(yielded[2].data[2].txt)
    /\ tags[2].start < Len(yielded[2].data[2].txt)
    /\ tags[2].end > Len(yielded[2].data[2].txt)
    /\ Len(emitted[2][3][2].txt) < tags[2].end - tags[2].start
    /\ emitted[2][3][2].txt # <<>>

\* C10 as claimed: whenever k records have been yielded, exactly 4k lines
\* have been drawn from the source; records and tag lists come in the order
\* of their groups of lines.
C10_FourLinesPerRecord ==
    /\ consumed = 4 * Len(yielded)
    /\ \A i \in 1..Len(yielded) : HoldsGroup(yielded[i], i)
    /\ cls = "TagGenerator" => Len(emitted) = Len(yielded)

\* C10, amended: while the iteration has not ended, exactly 4k lines have
\* been drawn when k records have been yielded, so each request that yields
\* a record or a tag list draws exactly four lines and none ahead; the
\* request that ends the iteration draws the r < 4 lines left over, so that
\* 4k + r lines are drawn in the end.  Records and tag lists come in the
\* order of their groups of lines, one tag list per record.
C10_LazyPull ==
    /\ rpc = "iter" => consumed = 4 * Len(yielded)
    /\ rpc = "done" => (/\ consumed = source.n
                        /\ consumed - 4 * Len(yielded) \in 0..3)
    /\ \A i \in 1..Len(yielded) : HoldsGroup(yielded[i], i)
    /\ cls = "TagGenerator" => Len(emitted) = Len(yielded)

\* C10's case: a TagGenerator that has emitted two tag lists and ended,
\* having drawn the three lines left over.
C10_Witness ==
    /\ cls = "TagGenerator" /\ rpc = "done"
    /\ Len(emitted) = 2 /\ consumed = 4 * Len(yielded) + 3

(***************************************************************************)
(* Reader.estimate_sequence_length                                         *)
(***************************************************************************)
\* The records the estimate reads at most.
SampleSize == 10000

\* Sources of no, few, nearly SampleSize, SampleSize and more than
\* SampleSize records, with and without lines left over.
EstimateLineCounts ==
    {0, 3, 4, 9, 4 * SampleSize - 4, 4 * SampleSize - 1, 4 * SampleSize,
     4 * SampleSize + 2, 4 * SampleSize + 4, 4 * SampleSize + 9}
EstimateSources == {[n |-> k, pat |-> TwoRecords] : k \in EstimateLineCounts}

\* A Reader on a source, estimate_sequence_length called and at its loop:
\* i = 0, records = iter(self).  est_data is data[:i], the part of
\* np.empty(10000) that has been written.
EstimateInit ==
    /\ cls = "Reader"
    /\ mode \in {"r", "rb"}
    /\ source \in EstimateSources
    /\ tags = <<>>
    /\ consumed = 0 /\ yielded = <<>> /\ emitted = <<>> /\ rpc = "iter"
    /\ est_i = 0 /\ est_data = <<>> /\ est_pc = "loop"
    /\ RecordIdle

\* A mutant of KeepSampling: while i <= 10000.
KeepSamplingInclusive(i) == i <= SampleSize

\* while i < 10000
KeepSampling(i) == i < SampleSize

\* A mutant of SampleEntry: the newline is not taken off.
SampleEntryWhole(seq) == Len(seq.txt)

\* len(seq) - 1
SampleEntry(seq) == Len(seq.txt) - 1

\* One round of the loop in which next(records) returns a record.
EstimateRecord ==
    LET g == GrouperNext(mode, source, consumed)
    IN /\ est_pc = "loop" /\ KeepSampling(est_i) /\ rpc = "iter" /\ g.ok
       /\ consumed' = g.consumed
       /\ est_data' = Append(est_data, SampleEntry(MakeRecord(mode, g.lines).data[2]))
       /\ est_i' = est_i + 1
       /\ UNCHANGED <<cls, mode, tags, source, yielded, emitted, rpc, est_pc, recVars>>

\* The round in which next(records) raises StopIteration: data = data[:i]
\* and the loop is left.
EstimateExhausted ==
    LET g == GrouperNext(mode, source, consumed)
    IN /\ est_pc = "loop" /\ KeepSampling(est_i) /\ rpc = "iter" /\ ~g.ok
       /\ consumed' = g.consumed
       /\ rpc' = "done"
       /\ est_pc' = "done"
       /\ UNCHANGED <<cls, mode, tags, source, yielded, emitted, est_i, est_data, recVars>>

\* The loop's test failing: data is full, and the statistics of data are
\* returned, which change nothing.
EstimateFull ==
    /\ est_pc = "loop" /\ ~KeepSampling(est_i)
    /\ est_pc' = "done"
    /\ UNCHANGED <<readVars, est_i, est_data, recVars>>

EstimateNext ==
    \/ EstimateRecord
    \/ EstimateExhausted
    \/ EstimateFull

EstimateSpec == EstimateInit /\ [][EstimateNext]_vars

\* C9: when estimate_sequence_length is done on a source of N complete
\* records, it has read min(N, 10000) records from the front and none
\* after the 10,000th, its sample has min(N, 10000) entries, entry i the
\* length of the sequence of record i less one, and a source that ends
\* before 10,000 records ends the scan without an error.
C9_Sampling ==
    est_pc = "done" =>
       /\ est_i = Min(source.n \div 4, SampleSize)
       /\ Len(est_data) = Min(source.n \div 4, SampleSize)
       /\ consumed = IF source.n \div 4 >= SampleSize THEN 4 * SampleSize ELSE source.n
       /\ \A k \in 1..Len(est_data) :
             est_data[k] = Len(LineText(source, 4 * (k - 1) + 2)) - 1

\* C9's case: a source of two records and a line left over, the scan done
\* with a sample of two entries.
C9_Witness ==
    /\ est_pc = "done" /\ source.n = 9
    /\ consumed = 9 /\ est_data = <<3, 1>>

=============================================================================
